---- MODULE Spec2Model ----
(***************************************************************************)
(* A model of the arbitrage detection engine (src/arbitrage_engine.py),    *)
(* the paper-trading ledger (src/paper_trader.py) and the price feed's     *)
(* table update (src/websocket_client.py).                                 *)
(*                                                                         *)
(* Numbers.  The program computes in IEEE doubles.  The model computes in  *)
(* exact arithmetic, extended with the three special values a double can   *)
(* take (inf, -inf, nan).  A finite number is written as a sum of powers   *)
(* of the per-leg keep factor  f = 1 - fee_rate = 999/1000  over a common  *)
(* denominator.  Every order comparison evaluates the sum at f = 999/1000  *)
(* exactly (base-1000 long arithmetic), so the representation changes no   *)
(* result; it only keeps TLC's integers small, and lets a price such as    *)
(* 1000/999 be written 1/f.                                                *)
(* Rounding, overflow and underflow of doubles are not modelled.           *)
(*                                                                         *)
(* Strings.  Currency codes and pair symbols are sequences of characters,  *)
(* so that concatenation, length, prefix and suffix are what the code's    *)
(* string operations are.                                                  *)
(***************************************************************************)
EXTENDS Integers, Sequences, FiniteSets, TLC

\* fee_rate = 0.001: the keep factor per leg is KeepNum / FeeBase.
FeeBase == 1000

KeepNum == 999

----------------------------------------------------------------------------
(* Integer helpers *)

Abs(n) == IF n < 0 THEN -n ELSE n

Max(a, b) == IF a >= b THEN a ELSE b

RECURSIVE Gcd(_, _)
Gcd(a, b) == IF b = 0 THEN Abs(a) ELSE Gcd(b, a % b)

RECURSIVE GcdSeq(_, _)
GcdSeq(s, g) == IF s = <<>> THEN g ELSE GcdSeq(Tail(s), Gcd(g, Abs(Head(s))))

RECURSIVE SumSeq(_)
SumSeq(s) == IF s = <<>> THEN 0 ELSE Head(s) + SumSeq(Tail(s))

----------------------------------------------------------------------------
(* Long naturals: little-endian sequences of base-FeeBase digits.  Used    *)
(* only to decide the sign of a polynomial at f = KeepNum / FeeBase.       *)

RECURSIVE ToBig(_)
ToBig(n) == IF n < FeeBase THEN <<n>> ELSE <<n % FeeBase>> \o ToBig(n \div FeeBase)

RECURSIVE BMulSmall(_, _, _)
BMulSmall(b, m, carry) ==
    IF b = <<>> THEN (IF carry = 0 THEN <<>> ELSE ToBig(carry))
    ELSE LET t == Head(b) * m + carry
         IN  <<t % FeeBase>> \o BMulSmall(Tail(b), m, t \div FeeBase)

RECURSIVE BAdd(_, _, _)
BAdd(x, y, carry) ==
    IF x = <<>> /\ y = <<>> THEN (IF carry = 0 THEN <<>> ELSE <<carry>>)
    ELSE LET hx == IF x = <<>> THEN 0 ELSE Head(x)
             hy == IF y = <<>> THEN 0 ELSE Head(y)
             t  == hx + hy + carry
         IN  <<t % FeeBase>> \o
             BAdd(IF x = <<>> THEN x ELSE Tail(x), IF y = <<>> THEN y ELSE Tail(y),
                  t \div FeeBase)

BShift(b, s) == [i \in 1..s |-> 0] \o b

RECURSIVE BTrim(_)
BTrim(b) == IF b = <<>> \/ b[Len(b)] # 0 THEN b ELSE BTrim(SubSeq(b, 1, Len(b) - 1))

RECURSIVE BCmpFrom(_, _, _)
BCmpFrom(x, y, i) ==
    IF i = 0 THEN 0
    ELSE IF x[i] > y[i] THEN 1
    ELSE IF x[i] < y[i] THEN -1
    ELSE BCmpFrom(x, y, i - 1)

\* -1, 0, 1 as x < y, x = y, x > y
BCmp(x, y) ==
    LET a == BTrim(x)
        b == BTrim(y)
    IN  IF Len(a) > Len(b) THEN 1
        ELSE IF Len(a) < Len(b) THEN -1
        ELSE BCmpFrom(a, b, Len(a))

\* sum over i of c[i] * KeepNum^(i-1) * FeeBase^(Len(c)-i), all c[i] >= 0
RECURSIVE BHorner(_, _, _)
BHorner(c, i, acc) ==
    IF i = 0 THEN acc
    ELSE BHorner(c, i - 1,
                 BAdd(BMulSmall(acc, KeepNum, 0), BShift(ToBig(c[i]), Len(c) - i), 0))

\* the sign of c[1] + c[2]*f + c[3]*f^2 + ... at f = KeepNum / FeeBase
SignC(c) ==
    IF \A i \in 1..Len(c) : c[i] >= 0
      THEN (IF \E i \in 1..Len(c) : c[i] > 0 THEN 1 ELSE 0)
    ELSE IF \A i \in 1..Len(c) : c[i] <= 0 THEN -1
    ELSE LET pos == [i \in 1..Len(c) |-> Max(c[i], 0)]
             neg == [i \in 1..Len(c) |-> Max(-c[i], 0)]
         IN  BCmp(BHorner(pos, Len(c), <<>>), BHorner(neg, Len(c), <<>>))

----------------------------------------------------------------------------
(* Numbers: finite, inf, -inf, nan; None is Python's None.  A finite       *)
(* number [k |-> "fin", c |-> <<c1, .., cn>>, lo |-> e, d |-> D] stands    *)
(* for (c1*f^e + c2*f^(e+1) + .. + cn*f^(e+n-1)) / D, in lowest terms.     *)

RECURSIVE StripHigh(_)
StripHigh(c) ==
    IF Len(c) > 1 /\ c[Len(c)] = 0 THEN StripHigh(SubSeq(c, 1, Len(c) - 1)) ELSE c

\* the number of leading zero coefficients, at most Len(c) - 1
RECURSIVE LowZeros(_)
LowZeros(c) == IF Len(c) > 1 /\ c[1] = 0 THEN 1 + LowZeros(Tail(c)) ELSE 0

Fin(c, lo, d) ==
    LET h == StripHigh(c)
        z == LowZeros(h)
        s == SubSeq(h, z + 1, Len(h))
        g == GcdSeq(s, Abs(d))
        sg == IF d < 0 THEN -g ELSE g
    IN  IF s = <<0>> THEN [k |-> "fin", c |-> <<0>>, lo |-> 0, d |-> 1]
        ELSE [k |-> "fin", c |-> [i \in 1..Len(s) |-> s[i] \div sg], lo |-> lo + z,
              d |-> d \div sg]

\* n/d * f^e
RatF(n, d, e) == Fin(<<n>>, e, d)

Rat(n, d) == RatF(n, d, 0)

Int2Num(n) == Rat(n, 1)

Inf == [k |-> "inf", c |-> <<0>>, lo |-> 0, d |-> 1]

NInf == [k |-> "ninf", c |-> <<0>>, lo |-> 0, d |-> 1]

NaN == [k |-> "nan", c |-> <<0>>, lo |-> 0, d |-> 1]

None == [k |-> "none", c |-> <<0>>, lo |-> 0, d |-> 1]

Zero == Int2Num(0)

One == Int2Num(1)

\* -1, 0, 1 for a finite or infinite number (nan has no sign)
NSign(x) ==
    IF x.k = "inf" THEN 1 ELSE IF x.k = "ninf" THEN -1 ELSE SignC(x.c)

\* the coefficient of f^e in a finite number's numerator
Coef(x, e) == IF e - x.lo + 1 \in 1..Len(x.c) THEN x.c[e - x.lo + 1] ELSE 0

Min(a, b) == IF a <= b THEN a ELSE b

NNeg(x) ==
    IF x.k = "inf" THEN NInf
    ELSE IF x.k = "ninf" THEN Inf
    ELSE IF x.k = "nan" THEN NaN
    ELSE Fin([i \in 1..Len(x.c) |-> -x.c[i]], x.lo, x.d)

NAdd(x, y) ==
    IF x.k = "nan" \/ y.k = "nan" THEN NaN
    ELSE IF x.k = "fin" /\ y.k = "fin"
      THEN LET lo == Min(x.lo, y.lo)
               hi == Max(x.lo + Len(x.c), y.lo + Len(y.c)) - 1
           IN  Fin([i \in 1..(hi - lo + 1) |->
                       Coef(x, lo + i - 1) * y.d + Coef(y, lo + i - 1) * x.d],
                   lo, x.d * y.d)
    ELSE IF x.k = "fin" THEN y
    ELSE IF y.k = "fin" THEN x
    ELSE IF x.k = y.k THEN x
    ELSE NaN

NSub(x, y) == NAdd(x, NNeg(y))

NMul(x, y) ==
    IF x.k = "nan" \/ y.k = "nan" THEN NaN
    ELSE IF x.k = "fin" /\ y.k = "fin"
      THEN Fin([n \in 1..(Len(x.c) + Len(y.c) - 1) |->
                    SumSeq([i \in 1..Len(x.c) |->
                               IF n + 1 - i \in 1..Len(y.c) THEN x.c[i] * y.c[n + 1 - i]
                               ELSE 0])],
               x.lo + y.lo, x.d * y.d)
    ELSE IF NSign(x) = 0 \/ NSign(y) = 0 THEN NaN
    ELSE IF NSign(x) = NSign(y) THEN Inf
    ELSE NInf

RECURSIVE NPow(_, _)
NPow(x, n) == IF n = 0 THEN One ELSE NMul(x, NPow(x, n - 1))

\* x > y, x < y, x <= y, x == y, x != y as Python decides them on doubles:
\* every ordered comparison with nan is False, nan != anything is True
NGt(x, y) ==
    /\ x.k # "nan" /\ y.k # "nan"
    /\ IF x.k = "fin" /\ y.k = "fin" THEN NSign(NSub(x, y)) = 1
       ELSE IF x.k = y.k THEN FALSE
       ELSE x.k = "inf" \/ y.k = "ninf"

NLt(x, y) == NGt(y, x)

NEq(x, y) ==
    /\ x.k # "nan" /\ y.k # "nan"
    /\ IF x.k = "fin" /\ y.k = "fin" THEN NSign(NSub(x, y)) = 0 ELSE x.k = y.k

NLe(x, y) == NLt(x, y) \/ NEq(x, y)

NNe(x, y) == ~NEq(x, y)

\* 1 / p for a table price p != 0; a table price is n/d * f^e, inf or nan
NInv(p) ==
    IF p.k = "nan" THEN NaN
    ELSE IF p.k \in {"inf", "ninf"} THEN Zero
    ELSE RatF(p.d, p.c[1], -p.lo)

----------------------------------------------------------------------------
(* Strings *)

USDT == <<"U", "S", "D", "T">>

BTC == <<"B", "T", "C">>

ETH == <<"E", "T", "H">>

BNB == <<"B", "N", "B">>

\* s.endswith(suffix)
EndsWith(s, suffix) ==
    /\ Len(s) >= Len(suffix)
    /\ SubSeq(s, Len(s) - Len(suffix) + 1, Len(s)) = suffix

----------------------------------------------------------------------------
(* The price table: a Python dict, which iterates in insertion order, as   *)
(* the sequence of its items.  An item's value is the quote; of the quote  *)
(* only the field "price" is read by the engine (it is None when the quote *)
(* has no such field).                                                     *)

Has(table, symbol) == \E i \in 1..Len(table) : table[i].sym = symbol

\* table.get(symbol, None)["price"] for a symbol the table has
PriceOf(table, symbol) ==
    table[CHOOSE i \in 1..Len(table) : table[i].sym = symbol].price

\* table[symbol] = {"price": price, ...}: overwrite in place, or insert last
Put(table, symbol, price) ==
    IF Has(table, symbol)
      THEN [i \in 1..Len(table) |->
               IF table[i].sym = symbol THEN [sym |-> symbol, price |-> price]
               ELSE table[i]]
    ELSE Append(table, [sym |-> symbol, price |-> price])

----------------------------------------------------------------------------
(* ArbitrageEngine configuration *)

triangular_triplets == << <<USDT, BTC, ETH>>, <<USDT, BTC, BNB>>, <<BTC, ETH, USDT>> >>

\* self.fee_rate = 0.001, that is 1 - f
fee_rate == Fin(<<1, -1>>, 0, 1)

\* trade_amount = 100
TradeAmount == 100

----------------------------------------------------------------------------
(* PaperTrader *)

\* self.balances.get(currency, 0)
BalanceGet(balances, currency) ==
    IF currency \in DOMAIN balances THEN balances[currency] ELSE Zero

\* self.balances[currency] = value
BalanceSet(balances, currency, value) ==
    [x \in (DOMAIN balances) \cup {currency} |->
        IF x = currency THEN value ELSE balances[x]]

\* The ledger is the record [balances, trade_log].  Timestamps are left out.
execute_triangular_trade(ledger, triplet, trade_amount, rate_AB, rate_BC, rate_CA, net_profit) ==
    LET A == triplet[1]
        paper_fee == NSub(One, fee_rate)
        amount_B == NMul(NMul(trade_amount, rate_AB), paper_fee)
        amount_C == NMul(NMul(amount_B, rate_BC), paper_fee)
        final_amount_A == NMul(NMul(amount_C, rate_CA), paper_fee)
        old_balance == BalanceGet(ledger.balances, A)
        new_balances ==
            BalanceSet(ledger.balances, A, NAdd(NSub(old_balance, trade_amount), final_amount_A))
    IN  IF NLt(BalanceGet(ledger.balances, A), trade_amount) THEN ledger
        ELSE [balances |-> new_balances,
              trade_log |-> Append(ledger.trade_log,
                  [strategy |-> "Triangular",
                   path |-> <<triplet[1], triplet[2], triplet[3], triplet[1]>>,
                   initial_amount |-> trade_amount,
                   final_amount |-> final_amount_A,
                   net_profit |-> NSub(final_amount_A, trade_amount),
                   balances_after |-> new_balances])]

\* A cycle notification that moves the balance and forgets the log entry
execute_cycle_trade_unlogged(ledger, cycle, trade_amount, net_profit) ==
    LET start_currency == cycle[1]
        final_amount == NMul(trade_amount, NAdd(One, net_profit))
        old_balance == BalanceGet(ledger.balances, start_currency)
    IN  IF NLt(old_balance, trade_amount) THEN ledger
        ELSE [ledger EXCEPT !.balances =
                 BalanceSet(@, start_currency,
                            NAdd(NSub(old_balance, trade_amount), final_amount))]

execute_cycle_trade(ledger, cycle, trade_amount, net_profit) ==
    LET start_currency == cycle[1]
        final_amount == NMul(trade_amount, NAdd(One, net_profit))
        old_balance == BalanceGet(ledger.balances, start_currency)
        new_balances ==
            BalanceSet(ledger.balances, start_currency,
                       NAdd(NSub(old_balance, trade_amount), final_amount))
    IN  IF NLt(BalanceGet(ledger.balances, start_currency), trade_amount) THEN ledger
        ELSE [balances |-> new_balances,
              trade_log |-> Append(ledger.trade_log,
                  [strategy |-> "BellmanFord",
                   path |-> Append(cycle, cycle[1]),
                   initial_amount |-> trade_amount,
                   final_amount |-> final_amount,
                   net_profit |-> NSub(final_amount, trade_amount),
                   balances_after |-> new_balances])]

\* What execute_triangular_trade hands back to its caller: the bare `return`
\* of the insufficient-balance branch and the end of the function body after
\* the log entry is appended both give Python's None
execute_triangular_trade_returns(ledger, triplet, trade_amount) ==
    IF NLt(BalanceGet(ledger.balances, triplet[1]), trade_amount) THEN None
    ELSE None

\* What execute_cycle_trade hands back to its caller, likewise None in both
\* branches
execute_cycle_trade_returns(ledger, cycle, trade_amount) ==
    IF NLt(BalanceGet(ledger.balances, cycle[1]), trade_amount) THEN None
    ELSE None

----------------------------------------------------------------------------
(* ArbitrageEngine.get_rate and run_triangular_arbitrage_check *)

\* A resolver that returns the stored price in either orientation
get_rate_uninverted(table, base, quote, pair_symbol) ==
    IF ~Has(table, pair_symbol) THEN None
    ELSE IF pair_symbol = base \o quote \/ pair_symbol = quote \o base
      THEN PriceOf(table, pair_symbol)
    ELSE None

get_rate(table, base, quote, pair_symbol) ==
    IF ~Has(table, pair_symbol) THEN None
    ELSE LET price == PriceOf(table, pair_symbol)
         IN  IF price = None THEN None
             ELSE IF pair_symbol = base \o quote THEN price
             ELSE IF pair_symbol = quote \o base
               THEN (IF NNe(price, Zero) THEN NInv(price) ELSE None)
             ELSE None

\* f"{X}{Y}" if f"{X}{Y}" in self.latest_prices else f"{Y}{X}"
PairSymbol(table, X, Y) == IF Has(table, X \o Y) THEN X \o Y ELSE Y \o X

\* (1 - self.fee_rate) ** 3
fee_adjustment == NPow(NSub(One, fee_rate), 3)

\* raw_product * fee_adjustment
effective_product(rate_AB, rate_BC, rate_CA) ==
    NMul(NMul(NMul(rate_AB, rate_BC), rate_CA), fee_adjustment)

\* An opportunity test that also accepts a product of exactly 1
IsOpportunityOrTie(product) == NGt(product, One) \/ NEq(product, One)

\* The opportunity test of one triplet
IsOpportunity(product) == NGt(product, One)

\* One iteration of the loop over the triplets.  st is the record
\* [ledger, calls, rates]: the ledger, the notifications sent to it so far
\* and, per triplet, the three rates resolved (<<>> for a triplet skipped
\* because a pair symbol is missing).
TriangularStep(table, st, triplet) ==
    LET A == triplet[1]
        B == triplet[2]
        C == triplet[3]
        pair_AB == PairSymbol(table, A, B)
        pair_BC == PairSymbol(table, B, C)
        pair_CA == PairSymbol(table, C, A)
        rate_AB == get_rate(table, A, B, pair_AB)
        rate_BC == get_rate(table, B, C, pair_BC)
        rate_CA == get_rate(table, C, A, pair_CA)
        product == effective_product(rate_AB, rate_BC, rate_CA)
        net_profit == NSub(product, One)
    IN  IF ~Has(table, pair_AB) \/ ~Has(table, pair_BC) \/ ~Has(table, pair_CA)
          THEN [st EXCEPT !.rates = Append(@, <<>>)]
        ELSE IF rate_AB = None \/ rate_BC = None \/ rate_CA = None
          THEN [st EXCEPT !.rates = Append(@, <<rate_AB, rate_BC, rate_CA>>)]
        ELSE IF IsOpportunity(product)
          THEN [ledger |-> execute_triangular_trade(st.ledger, triplet, Int2Num(TradeAmount),
                                                    rate_AB, rate_BC, rate_CA, net_profit),
                calls |-> Append(st.calls,
                    [kind |-> "triangular", path |-> triplet,
                     trade_amount |-> Int2Num(TradeAmount),
                     rates |-> <<rate_AB, rate_BC, rate_CA>>,
                     net_profit |-> net_profit,
                     returned |-> execute_triangular_trade_returns(
                                      st.ledger, triplet, Int2Num(TradeAmount))]),
                rates |-> Append(st.rates, <<rate_AB, rate_BC, rate_CA>>)]
        ELSE [st EXCEPT !.rates = Append(@, <<rate_AB, rate_BC, rate_CA>>)]

\* A loop that leaves at the first triplet it skips for a missing pair
RECURSIVE TriangularLoopUntilSkip(_, _, _)
TriangularLoopUntilSkip(table, st, triplets) ==
    IF triplets = <<>> THEN st
    ELSE LET next == TriangularStep(table, st, Head(triplets))
         IN  IF next.rates[Len(next.rates)] = <<>> THEN next
             ELSE TriangularLoopUntilSkip(table, next, Tail(triplets))

RECURSIVE TriangularLoop(_, _, _)
TriangularLoop(table, st, triplets) ==
    IF triplets = <<>> THEN st
    ELSE TriangularLoop(table, TriangularStep(table, st, Head(triplets)), Tail(triplets))

run_triangular_arbitrage_check(table, ledger) ==
    TriangularLoop(table, [ledger |-> ledger, calls |-> <<>>, rates |-> <<>>],
                   triangular_triplets)

----------------------------------------------------------------------------
(* ArbitrageEngine.run_bellman_ford_arbitrage_check                        *)
(*                                                                         *)
(* An edge weight is -log(x) of a factor x; the model keeps the factor x.  *)
(* A distance is minus the log of a gain: the model keeps the gain, 0 for  *)
(* the distance +inf, 1 for the distance 0.  Then                          *)
(*   distances[u] + weight < distances[v]   is   gain[u] * x > gain[v].    *)

\* predecessors[v] = None, and the None that reconstruct_cycle returns
NoVertex == <<>>

\* What a raised exception leaves in place of a value
Raise == [k |-> "raise", c |-> <<0>>, lo |-> 0, d |-> 1]

\* math.log(x) raises ValueError for x <= 0 (x is never nan or -inf here)
LogRaises(x) == x.k = "fin" /\ NSign(x) <= 0

\* graph[u].append((v, weight)), creating graph[u] = [] first when u is new.
\* The graph is the sequence of its items [u, adj] in insertion order.
AddEdge(graph, u, v, weight) ==
    IF \E i \in 1..Len(graph) : graph[i].u = u
      THEN [i \in 1..Len(graph) |->
               IF graph[i].u = u
                 THEN [u |-> u, adj |-> Append(graph[i].adj, [v |-> v, w |-> weight])]
               ELSE graph[i]]
    ELSE Append(graph, [u |-> u, adj |-> <<[v |-> v, w |-> weight]>>])

\* base of a symbol, by the engine's splitting heuristic
SymbolBase(symbol) ==
    IF EndsWith(symbol, USDT) THEN SubSeq(symbol, 1, Len(symbol) - 4)
    ELSE SubSeq(symbol, 1, 3)

SymbolQuote(symbol) ==
    IF EndsWith(symbol, USDT) THEN USDT ELSE SubSeq(symbol, 4, Len(symbol))

\* the minimum symbol length the graph builder parses
MinSymbolLen == 6

\* A length test that lets every symbol through
TooShortNever(symbol) == FALSE

\* len(symbol) < 6
TooShort(symbol) == Len(symbol) < MinSymbolLen

\* whether the builder skips a symbol's price: rate is None or rate <= 0
SkipsPrice(rate) == rate = None \/ NLe(rate, Zero)

\* One iteration of the loop over the table's items.  b is the record
\* [graph, currencies, raised].
BuildStep(b, item) ==
    LET symbol == item.sym
        base == SymbolBase(symbol)
        quote == SymbolQuote(symbol)
        rate == item.price
        keep == NSub(One, fee_rate)
        forward == NMul(rate, keep)
        inverse == NMul(NInv(rate), keep)
        seen == [b EXCEPT !.currencies = @ \cup {base, quote}]
    IN  IF b.raised THEN b
        ELSE IF TooShort(symbol) THEN b
        ELSE IF SkipsPrice(rate) THEN seen
        ELSE IF LogRaises(forward) THEN [seen EXCEPT !.raised = TRUE]
        ELSE IF NNe(rate, Zero)
          THEN (IF LogRaises(inverse)
                  THEN [seen EXCEPT !.raised = TRUE,
                                    !.graph = AddEdge(@, base, quote, forward)]
                ELSE [seen EXCEPT !.graph =
                          AddEdge(AddEdge(@, base, quote, forward), quote, base, inverse)])
        ELSE [seen EXCEPT !.graph = AddEdge(@, base, quote, forward)]

RECURSIVE BuildLoop(_, _)
BuildLoop(b, items) ==
    IF items = <<>> THEN b ELSE BuildLoop(BuildStep(b, Head(items)), Tail(items))

BuildGraph(table) ==
    BuildLoop([graph |-> <<>>, currencies |-> {}, raised |-> FALSE], table)

\* The edges in the order of: for u in graph: for v, weight in graph[u]
RECURSIVE EdgeList(_)
EdgeList(graph) ==
    IF graph = <<>> THEN <<>>
    ELSE [i \in 1..Len(Head(graph).adj) |->
             [u |-> Head(graph).u, v |-> Head(graph).adj[i].v, w |-> Head(graph).adj[i].w]]
         \o EdgeList(Tail(graph))

\* distances[u] + weight < distances[v]
Relaxes(d, e) == NGt(NMul(d.distances[e.u], e.w), d.distances[e.v])

\* One pass over all edges; d is the record [distances, predecessors]
RECURSIVE RelaxPass(_, _)
RelaxPass(d, edges) ==
    IF edges = <<>> THEN d
    ELSE LET e == Head(edges)
         IN  RelaxPass(IF Relaxes(d, e)
                         THEN [distances |-> [d.distances EXCEPT ![e.v] =
                                                 NMul(d.distances[e.u], e.w)],
                               predecessors |-> [d.predecessors EXCEPT ![e.v] = e.u]]
                       ELSE d,
                       Tail(edges))

RECURSIVE RelaxTimes(_, _, _)
RelaxTimes(d, edges, n) ==
    IF n <= 0 THEN d ELSE RelaxTimes(RelaxPass(d, edges), edges, n - 1)

\* No relaxation pass before the check pass
PassCountNone(currencies) == 0

\* range(len(currencies) - 1)
PassCount(currencies) == Cardinality(currencies) - 1

\* The first edge, in order, that still relaxes: its head v, or NoVertex
RECURSIVE FirstRelaxing(_, _)
FirstRelaxing(d, edges) ==
    IF edges = <<>> THEN NoVertex
    ELSE IF Relaxes(d, Head(edges)) THEN Head(edges).v
    ELSE FirstRelaxing(d, Tail(edges))

\* The body of the loop over the start vertices up to the relaxing edge found:
\* [v, predecessors], v = NoVertex when no edge relaxes in the check pass.
BellmanFordFrom(graph, currencies, start) ==
    LET edges == EdgeList(graph)
        init == [distances |-> [x \in currencies |-> IF x = start THEN One ELSE Zero],
                 predecessors |-> [x \in currencies |-> NoVertex]]
        d == RelaxTimes(init, edges, PassCount(currencies))
    IN  [v |-> FirstRelaxing(d, edges), predecessors |-> d.predecessors]

\* reconstruct_cycle: the first loop returns the first repeated vertex, or
\* NoVertex when a None predecessor is met
RECURSIVE WalkToRepeat(_, _, _)
WalkToRepeat(predecessors, current, visited) ==
    IF current \in visited THEN current
    ELSE IF predecessors[current] = NoVertex THEN NoVertex
    ELSE WalkToRepeat(predecessors, predecessors[current], visited \cup {current})

RECURSIVE CollectCycle(_, _, _, _)
CollectCycle(predecessors, cycle_start, current, cycle) ==
    IF current = cycle_start THEN cycle
    ELSE CollectCycle(predecessors, cycle_start, predecessors[current],
                      Append(cycle, current))

Reverse(s) == [i \in 1..Len(s) |-> s[Len(s) + 1 - i]]

\* the list returned, or NoVertex for None
reconstruct_cycle(predecessors, start_vertex) ==
    LET cycle_start == WalkToRepeat(predecessors, start_vertex, {})
    IN  IF cycle_start = NoVertex THEN NoVertex
        ELSE Reverse(CollectCycle(predecessors, cycle_start, predecessors[cycle_start],
                                  <<cycle_start>>))

\* A leg rate that reads direct quotes only and never inverts
CycleLegRateDirectOnly(table, A, B) ==
    IF Has(table, A \o B)
      THEN (IF PriceOf(table, A \o B) = None THEN Raise ELSE PriceOf(table, A \o B))
    ELSE One

\* The rate of one leg in calculate_cycle_profit; Raise when the quote read
\* has no price (KeyError or TypeError in the code)
CycleLegRate(table, A, B) ==
    IF Has(table, A \o B)
      THEN (IF PriceOf(table, A \o B) = None THEN Raise ELSE PriceOf(table, A \o B))
    ELSE IF Has(table, B \o A)
      THEN (IF PriceOf(table, B \o A) = None THEN Raise
            ELSE IF NNe(PriceOf(table, B \o A), Zero) THEN NInv(PriceOf(table, B \o A))
            ELSE Zero)
    ELSE One

RECURSIVE CycleProfitLoop(_, _, _, _)
CycleProfitLoop(table, cycle, i, amount) ==
    IF i > Len(cycle) THEN amount
    ELSE LET rate == CycleLegRate(table, cycle[i], cycle[(i % Len(cycle)) + 1])
         IN  IF rate = Raise THEN Raise
             ELSE CycleProfitLoop(table, cycle, i + 1,
                                  NMul(NMul(amount, rate), NSub(One, fee_rate)))

calculate_cycle_profit(table, cycle) == CycleProfitLoop(table, cycle, 1, One)

\* The first start vertex, in the iteration order of the set, whose check
\* pass finds a relaxing edge (the loop returns there), or NoVertex
RECURSIVE FirstHit(_, _)
FirstHit(runs, order) ==
    IF order = <<>> THEN NoVertex
    ELSE IF runs[Head(order)].v # NoVertex THEN Head(order)
    ELSE FirstHit(runs, Tail(order))

\* All iteration orders of a set
RECURSIVE Orders(_)
Orders(S) ==
    IF S = {} THEN {<<>>}
    ELSE UNION {{<<x>> \o p : p \in Orders(S \ {x})} : x \in S}

\* The runs of the loop body, one per start vertex (they share no state)
BellmanFordRuns(built) ==
    [start \in built.currencies |->
        BellmanFordFrom(built.graph, built.currencies, start)]

\* A check that goes through every start vertex and notifies the ledger of
\* each profitable cycle it reconstructs, instead of returning at the first
RECURSIVE NotifyEveryStart(_, _, _, _)
NotifyEveryStart(table, acc, runs, order) ==
    IF order = <<>> THEN acc
    ELSE LET run == runs[Head(order)]
             cycle == IF run.v = NoVertex THEN NoVertex
                      ELSE reconstruct_cycle(run.predecessors, run.v)
             profit == IF cycle = NoVertex THEN None
                       ELSE calculate_cycle_profit(table, cycle)
             net_profit == NSub(profit, One)
         IN  IF cycle # NoVertex /\ profit # Raise /\ NGt(profit, One)
               THEN NotifyEveryStart(table,
                        [acc EXCEPT
                           !.ledger = execute_cycle_trade(@, cycle, Int2Num(TradeAmount),
                                                          net_profit),
                           !.calls = Append(@,
                               [kind |-> "cycle", path |-> cycle,
                                trade_amount |-> Int2Num(TradeAmount),
                                rates |-> <<>>, net_profit |-> net_profit,
                                returned |-> None]),
                           !.start = Head(order), !.v = run.v,
                           !.cycle = cycle, !.profit = profit],
                        runs, Tail(order))
             ELSE NotifyEveryStart(table, acc, runs, Tail(order))

DetectEveryCycle(table, ledger, built, runs, order) ==
    NotifyEveryStart(table,
        [ledger |-> ledger, calls |-> <<>>, raised |-> built.raised,
         graph |-> built.graph, currencies |-> built.currencies,
         start |-> NoVertex, v |-> NoVertex, cycle |-> NoVertex, profit |-> None],
        runs, IF built.raised THEN <<>> ELSE order)

\* What the check does once the graph is built and the set of currencies is
\* iterated in `order`.  The result is the record
\* [ledger, calls, raised, graph, currencies, start, v, cycle, profit]:
\* the ledger after, the notifications sent, whether an exception left the
\* check, and the check's locals when it returned.
DetectCycle(table, ledger, built, runs, order) ==
    LET start == FirstHit(runs, order)
        run == runs[start]
        cycle == reconstruct_cycle(run.predecessors, run.v)
        profit == calculate_cycle_profit(table, cycle)
        net_profit == NSub(profit, One)
        nothing == [ledger |-> ledger, calls |-> <<>>, raised |-> FALSE,
                    graph |-> built.graph, currencies |-> built.currencies,
                    start |-> NoVertex, v |-> NoVertex, cycle |-> NoVertex,
                    profit |-> None]
    IN  IF built.raised THEN [nothing EXCEPT !.raised = TRUE]
        ELSE IF start = NoVertex THEN nothing
        ELSE IF cycle = NoVertex
          THEN [nothing EXCEPT !.start = start, !.v = run.v]
        ELSE IF profit = Raise
          THEN [nothing EXCEPT !.start = start, !.v = run.v, !.cycle = cycle,
                               !.raised = TRUE]
        ELSE IF NGt(profit, One)
          THEN [ledger |-> execute_cycle_trade(ledger, cycle, Int2Num(TradeAmount), net_profit),
                calls |-> <<[kind |-> "cycle", path |-> cycle,
                             trade_amount |-> Int2Num(TradeAmount),
                             rates |-> <<>>, net_profit |-> net_profit,
                             returned |-> execute_cycle_trade_returns(
                                              ledger, cycle, Int2Num(TradeAmount))]>>,
                raised |-> FALSE,
                graph |-> built.graph, currencies |-> built.currencies,
                start |-> start, v |-> run.v, cycle |-> cycle, profit |-> profit]
        ELSE [nothing EXCEPT !.start = start, !.v = run.v, !.cycle = cycle,
                             !.profit = profit]

\* The outcomes the check can have on a table: one per iteration order of
\* the set of currencies (a Python set of strings iterates in hash order)
run_bellman_ford_arbitrage_check(table, ledger) ==
    LET built == BuildGraph(table)
        runs == BellmanFordRuns(built)
    IN  {DetectCycle(table, ledger, built, runs, order)
             : order \in Orders(built.currencies)}

----------------------------------------------------------------------------
(* State *)

VARIABLES
    latest_prices,  \* the shared price table
    balances,       \* PaperTrader.balances
    trade_log,      \* PaperTrader.trade_log
    pc,             \* where detection_scheduler stands: before
                    \* run_triangular_arbitrage_check ("triangular"), before
                    \* run_bellman_ford_arbitrage_check ("bellman_ford"), or in
                    \* asyncio.sleep ("sleep"); "cancelling" once the task
                    \* has been cancelled and not yet resumed, "cancelled"
                    \* once CancelledError has left the coroutine
    calls,          \* the ledger notifications sent in the current or last tick
    rates,          \* per triplet, the rates the last triangular check resolved
    bf,             \* the locals of the last Bellman-Ford check when it returned
    raised,         \* whether the last tick ended in the scheduler's except branch
    handled         \* number of feed messages handled so far

vars == <<latest_prices, balances, trade_log, pc, calls, rates, bf, raised, handled>>

\* The example of PaperTrader's docstring
initial_balances ==
    (USDT :> Int2Num(1000)) @@ (BTC :> Zero) @@ (ETH :> Zero)

NoCheck ==
    [graph |-> <<>>, currencies |-> {}, start |-> NoVertex, v |-> NoVertex,
     cycle |-> NoVertex, profit |-> None]

InitRest ==
    /\ balances = initial_balances
    /\ trade_log = <<>>
    /\ calls = <<>>
    /\ rates = <<>>
    /\ bf = NoCheck
    /\ raised = FALSE
    /\ handled = 0

Ledger == [balances |-> balances, trade_log |-> trade_log]

Locals(r) ==
    [graph |-> r.graph, currencies |-> r.currencies, start |-> r.start, v |-> r.v,
     cycle |-> r.cycle, profit |-> r.profit]

\* Bounds: ticks stop once the trade log holds MaxLog trades, and the feed
\* delivers at most MaxMessages messages
MaxLog == 2

MaxMessages == 3

----------------------------------------------------------------------------
(* Operations *)

\* A scheduler without the except branch: an exception ends the coroutine
AfterTickUncaught(exception) == IF exception THEN "crashed" ELSE "sleep"

\* Where the scheduler goes at the end of the loop body, whether the try
\* block completed or the except branch caught an exception
AfterTick(exception) == "sleep"

\* run_triangular_arbitrage_check alone: the first half of a tick
TriangularCheck ==
    /\ pc = "triangular"
    /\ LET t == run_triangular_arbitrage_check(latest_prices, Ledger)
       IN  /\ balances' = t.ledger.balances
           /\ trade_log' = t.ledger.trade_log
           /\ calls' = t.calls
           /\ rates' = t.rates
    /\ pc' = "bellman_ford"
    /\ UNCHANGED <<latest_prices, bf, raised, handled>>

\* A scheduler that awaits between its two checks: the feed task can run
\* there, and a message for ETHUSDT at price 2 may land in the table
TableAfterYield(table) == {table, Put(table, ETH \o USDT, Int2Num(2))}

\* The tables run_bellman_ford_arbitrage_check can find when
\* run_triangular_arbitrage_check started on `table`: the two are plain
\* calls, one after the other, and the scheduler task is not suspended
\* between them, so no other task runs
TableAtCycleCheck(table) == {table}

\* A tick that consumes the quotes: it empties the table when it is done
TickClearingTable ==
    /\ pc = "triangular"
    /\ Len(trade_log) < MaxLog
    /\ latest_prices' = <<>>
    /\ pc' = "sleep"
    /\ UNCHANGED <<balances, trade_log, calls, rates, bf, raised, handled>>

\* One iteration of detection_scheduler's loop up to the sleep: both checks
\* run back to back with no await between them, inside one try block
Tick ==
    /\ pc = "triangular"
    /\ Len(trade_log) < MaxLog
    /\ LET t == run_triangular_arbitrage_check(latest_prices, Ledger)
       IN  \E seen \in TableAtCycleCheck(latest_prices) :
           \E r \in run_bellman_ford_arbitrage_check(seen, t.ledger) :
              /\ latest_prices' = seen
              /\ balances' = r.ledger.balances
              /\ trade_log' = r.ledger.trade_log
              /\ calls' = t.calls \o r.calls
              /\ rates' = t.rates
              /\ bf' = Locals(r)
              /\ raised' = r.raised
              /\ pc' = AfterTick(r.raised)
    /\ UNCHANGED handled

\* await asyncio.sleep(self.detection_interval) returns
Wake ==
    /\ pc = "sleep"
    /\ pc' = "triangular"
    /\ UNCHANGED <<latest_prices, balances, trade_log, calls, rates, bf, raised, handled>>

\* Task.cancel() on the task running detection_scheduler, the one way to
\* stop a coroutine whose loop is `while True`.  Other tasks run only while
\* the scheduler is suspended: in its sleep, or before its first step.  (A
\* cancel() called from inside a tick is equally recorded and delivered at
\* the next await, the same sleep.)
Cancel ==
    /\ pc \in {"triangular", "sleep"}
    /\ pc' = "cancelling"
    /\ UNCHANGED <<latest_prices, balances, trade_log, calls, rates, bf, raised, handled>>

\* A scheduler whose sleep sits inside a try block that catches the
\* cancellation: the loop goes on to the next tick
AfterCancelCaught == "triangular"

\* Where CancelledError takes the scheduler: it is raised at the await of
\* asyncio.sleep, which no try block encloses, and leaves the coroutine
AfterCancel == "cancelled"

\* The event loop resumes the cancelled task by raising CancelledError in it
Terminate ==
    /\ pc = "cancelling"
    /\ pc' = AfterCancel
    /\ UNCHANGED <<latest_prices, balances, trade_log, calls, rates, bf, raised, handled>>

\* calculate_cycle_profit called on the cycle held in bf.cycle
CycleReplay ==
    /\ pc = "replay"
    /\ LET profit == calculate_cycle_profit(latest_prices, bf.cycle)
       IN  /\ bf' = [bf EXCEPT !.profit = profit]
           /\ raised' = (profit = Raise)
    /\ pc' = "replayed"
    /\ UNCHANGED <<latest_prices, balances, trade_log, calls, rates, handled>>

\* WebSocketClient.handle_message for a message with a symbol and a price
handle_message(symbol, price) ==
    /\ handled < MaxMessages
    /\ latest_prices' = Put(latest_prices, symbol, price)
    /\ handled' = handled + 1
    /\ UNCHANGED <<balances, trade_log, pc, calls, rates, bf, raised>>

----------------------------------------------------------------------------
(* Inputs *)

BTCUSDT == BTC \o USDT

USDTBTC == USDT \o BTC

ETHBTC == ETH \o BTC

BTCETH == BTC \o ETH

ETHUSDT == ETH \o USDT

BNBBTC == BNB \o BTC

BNBUSDT == BNB \o USDT

\* a symbol whose base and quote are the same currency
BTCBTC == BTC \o BTC

\* a symbol too short for the graph builder
ETHBT == <<"E", "T", "H", "B", "T">>

Half == Rat(1, 2)

Two == Rat(2, 1)

MinusTwo == Rat(-2, 1)

\* 999/1000 and 1000/999, 1000000/998001
Keep == RatF(1, 1, 1)

KeepInv == RatF(1, 1, -1)

KeepInv2 == RatF(1, 1, -2)

\* The tables with, for each <<symbol, prices>> of cols in turn, either no
\* item or one item with one of the prices
RECURSIVE TablesOver(_)
TablesOver(cols) ==
    IF cols = <<>> THEN {<<>>}
    ELSE LET rest == TablesOver(Tail(cols))
         IN  rest \cup {<<[sym |-> Head(cols)[1], price |-> p]>> \o t :
                           p \in Head(cols)[2], t \in rest}

\* The tables of TablesOver for every insertion order of the columns
OrderedOver(cols) ==
    UNION {TablesOver([i \in 1..Len(cols) |-> cols[o[i]]]) : o \in Orders(1..Len(cols))}

\* Tables for the triangular scanner: direct and inverse quotes of the legs
\* of the three triplets, with zero, negative, infinite and missing prices
\* and the products below, at and above 1 after fees
ScanTables ==
    TablesOver(<< <<BTCUSDT, {Zero, MinusTwo, Half, Keep, Inf}>>,
                  <<ETHBTC, {None, MinusTwo, Half, Keep}>>,
                  <<ETHUSDT, {Zero, MinusTwo, Two, Keep, KeepInv}>>,
                  <<USDTBTC, {Two}>>, <<BNBBTC, {Half}>>, <<BNBUSDT, {Two}>> >>)

\* Tables for the cycle detector: the triangle USDT, BTC, ETH in every
\* insertion order with round trips below, at and above 1 after fees, and
\* tables with both orientations of a pair, a short symbol and zero,
\* negative, infinite and missing prices, and a symbol whose two halves
\* name the same currency
DetectTables ==
    OrderedOver(<< <<BTCUSDT, {Two, Keep}>>, <<ETHBTC, {Half, Keep}>>,
                   <<ETHUSDT, {Two, KeepInv, KeepInv2}>> >>)
    \cup TablesOver(<< <<ETHBTC, {Two, Zero}>>, <<BTCETH, {Two, MinusTwo}>>,
                       <<ETHUSDT, {None, Inf, Two}>>, <<ETHBT, {Two}>> >>)
    \cup TablesOver(<< <<BTCBTC, {Two}>>, <<ETHBTC, {Half}>> >>)

\* Tables for the cycle replay: the pairs of USDT, BTC and ETH with direct
\* and inverse quotes, zero prices and missing symbols
ReplayTables ==
    TablesOver(<< <<BTCUSDT, {Zero, Two}>>, <<ETHBTC, {Zero, Half}>>,
                  <<ETHUSDT, {Two}>>, <<USDTBTC, {Half}>> >>)

\* The cycles of two and of three of the currencies, from every start
ReplayCycles ==
    UNION {Orders(S) : S \in {T \in SUBSET {USDT, BTC, ETH} : Cardinality(T) >= 2}}

FeedSymbols == {BTCUSDT, ETHBTC, ETHUSDT}

FeedPrices == {Two, Inf}

----------------------------------------------------------------------------
(* Specifications *)

\* The system: the feed and the scheduler, from an empty table
Init ==
    /\ latest_prices = <<>>
    /\ pc = "triangular"
    /\ InitRest

Next ==
    \/ \E symbol \in FeedSymbols, price \in FeedPrices : handle_message(symbol, price)
    \/ Tick
    \/ Wake

Spec == Init /\ [][Next]_vars

\* The event loop resumes the scheduler once its sleep is over
SpecLive == Spec /\ WF_vars(Wake)

\* The program with a cancellation of the scheduler task at any moment
NextStop ==
    \/ Next
    \/ Cancel
    \/ Terminate

\* The event loop does resume a cancelled task
SpecStop == Init /\ [][NextStop]_vars /\ WF_vars(Terminate)

\* The triangular scanner on the tables of ScanTables
InitScan ==
    /\ latest_prices \in ScanTables
    /\ pc = "triangular"
    /\ InitRest

NextScan == TriangularCheck

SpecScan == InitScan /\ [][NextScan]_vars

\* calculate_cycle_profit on the tables of ReplayTables and the cycles of
\* ReplayCycles
InitReplay ==
    /\ latest_prices \in ReplayTables
    /\ bf \in {[NoCheck EXCEPT !.cycle = c] : c \in ReplayCycles}
    /\ pc = "replay"
    /\ balances = initial_balances
    /\ trade_log = <<>>
    /\ calls = <<>>
    /\ rates = <<>>
    /\ raised = FALSE
    /\ handled = 0

NextReplay == CycleReplay

SpecReplay == InitReplay /\ [][NextReplay]_vars

\* One tick, both checks, on the tables of DetectTables
InitDetect ==
    /\ latest_prices \in DetectTables
    /\ pc = "triangular"
    /\ InitRest

NextDetect == Tick

SpecDetect == InitDetect /\ [][NextDetect]_vars

----------------------------------------------------------------------------
(* Properties of the triangular scanner (SpecScan)                         *)

\* the scanner has run on latest_prices
Scanned == pc = "bellman_ford"

\* the three rates of triplet i all resolved
Resolved(i) ==
    /\ rates[i] # <<>>
    /\ \A l \in 1..3 : rates[i][l] # None

\* rateAB * rateBC * rateCA * (1 - feeRate)^3 of triplet i
ProductOf(i) ==
    NMul(NMul(NMul(rates[i][1], rates[i][2]), rates[i][3]),
         NMul(NMul(NSub(One, fee_rate), NSub(One, fee_rate)), NSub(One, fee_rate)))

\* the triangular notifications sent for triplet i
NotifiedFor(i) ==
    {j \in 1..Len(calls) :
        calls[j].kind = "triangular" /\ calls[j].path = triangular_triplets[i]}

\* C1: for every configured triplet whose three rates resolve, the scanner
\* notifies the ledger for that triplet if and only if the product of the
\* rates times (1 - fee_rate)^3 is strictly greater than 1, once, with the
\* three rates and with net_profit exactly that product minus 1; a product
\* of exactly 1 gives no notification.
C1_NotifiesIffAboveOne ==
    Scanned =>
        \A i \in 1..Len(triangular_triplets) :
            Resolved(i) =>
                /\ (NotifiedFor(i) # {}) <=> NGt(ProductOf(i), One)
                /\ NEq(ProductOf(i), One) => NotifiedFor(i) = {}
                /\ Cardinality(NotifiedFor(i)) <= 1
                /\ \A j \in NotifiedFor(i) :
                      /\ calls[j].net_profit = NSub(ProductOf(i), One)
                      /\ calls[j].rates = rates[i]

\* C1 witness: one triplet is notified with a finite positive profit while
\* another resolves to a product of exactly 1 and is not notified
C1_Witness ==
    /\ Scanned
    /\ \E i \in 1..Len(triangular_triplets) :
          /\ Resolved(i)
          /\ NEq(ProductOf(i), One)
          /\ NotifiedFor(i) = {}
    /\ \E i \in 1..Len(triangular_triplets) :
          /\ Resolved(i)
          /\ \E j \in NotifiedFor(i) :
                calls[j].net_profit.k = "fin" /\ NGt(calls[j].net_profit, Zero)

\* The currencies of the configured triplets
Currencies == {USDT, BTC, ETH, BNB}

\* The legs of triplet i: A -> B, B -> C, C -> A
Legs(i) ==
    LET t == triangular_triplets[i]
    IN  << <<t[1], t[2]>>, <<t[2], t[3]>>, <<t[3], t[1]>> >>

\* The rate the scanner resolves for base -> quote on the current table
RateOf(base, quote) ==
    get_rate(latest_prices, base, quote, PairSymbol(latest_prices, base, quote))

\* neither base+quote nor quote+base is in the table
NeitherPresent(base, quote) ==
    ~Has(latest_prices, base \o quote) /\ ~Has(latest_prices, quote \o base)

\* some leg of triplet i has neither orientation of its pair symbol
MissingLeg(i) == \E l \in 1..3 : NeitherPresent(Legs(i)[l][1], Legs(i)[l][2])

\* C2: resolving base -> quote gives the price p of base+quote when that
\* symbol is present; 1/p when only quote+base is present, with price
\* p != 0; nothing (None) when only quote+base is present with price 0, or
\* when neither symbol is present.  The scanner resolves each leg of a
\* triplet it does not skip this way.
C2_RateResolution ==
    /\ \A base \in Currencies : \A quote \in Currencies \ {base} :
          LET direct == base \o quote
              inverse == quote \o base
              p == PriceOf(latest_prices, inverse)
              r == RateOf(base, quote)
          IN  /\ Has(latest_prices, direct) => r = PriceOf(latest_prices, direct)
              /\ (~Has(latest_prices, direct) /\ Has(latest_prices, inverse) /\ p # None) =>
                    IF NEq(p, Zero) THEN r = None
                    ELSE IF p.k = "fin" THEN r # None /\ NEq(NMul(r, p), One)
                    ELSE r = Zero
              /\ NeitherPresent(base, quote) => r = None
    /\ Scanned =>
          \A i \in 1..Len(triangular_triplets) :
              /\ rates[i] = <<>> <=> MissingLeg(i)
              /\ rates[i] # <<>> =>
                    \A l \in 1..3 : rates[i][l] = RateOf(Legs(i)[l][1], Legs(i)[l][2])

\* C2 witness: the scanner resolved one leg from a direct quote, one from an
\* inverse quote with a price other than 0 and one, to nothing, from an
\* inverse quote with price 0, and skipped a triplet with a missing pair
C2_Witness ==
    /\ Scanned
    /\ ~Has(latest_prices, USDT \o BTC)
    /\ Has(latest_prices, BTC \o USDT) /\ PriceOf(latest_prices, BTC \o USDT) = Zero
    /\ ~Has(latest_prices, BTC \o ETH)
    /\ Has(latest_prices, ETH \o BTC) /\ PriceOf(latest_prices, ETH \o BTC) = Half
    /\ Has(latest_prices, ETH \o USDT) /\ PriceOf(latest_prices, ETH \o USDT) = Two
    /\ rates[1] = <<None, Two, Two>>
    /\ rates[2] = <<>>

\* C3: every rate the scanner multiplies into a product it compares with 1
\* comes from a quote with price > 0
C3_RatesFromPositiveQuotes ==
    Scanned =>
        \A i \in 1..Len(triangular_triplets) :
            Resolved(i) =>
                \A l \in 1..3 :
                    NGt(PriceOf(latest_prices,
                                PairSymbol(latest_prices, Legs(i)[l][1], Legs(i)[l][2])),
                        Zero)

\* C5: when a leg of a triplet has neither orientation of its pair symbol in
\* the table, the scanner sends no notification for that triplet and resolves
\* no rate for it, no exception leaves the check, and every configured
\* triplet is still visited: those with all pairs present get their rates
\* resolved.
C5_MissingLegSkipped ==
    Scanned =>
        /\ Len(rates) = Len(triangular_triplets)
        /\ ~raised
        /\ \A i \in 1..Len(rates) :
              IF MissingLeg(i) THEN NotifiedFor(i) = {} /\ rates[i] = <<>>
              ELSE rates[i] # <<>>

\* C5 witness: the first triplet was skipped for a missing pair and the
\* second one, visited after it, was notified
C5_Witness ==
    /\ Scanned
    /\ MissingLeg(1)
    /\ rates[1] = <<>>
    /\ NotifiedFor(2) # {}

----------------------------------------------------------------------------
(* Properties of the cycle detector (SpecDetect)                           *)

\* both checks have run on latest_prices
Detected == pc = "sleep"

\* 1 - fee_rate
KeepFactor == NSub(One, fee_rate)

\* the items of the table the graph builder may take edges from
Qualifying ==
    {n \in 1..Len(latest_prices) :
        /\ Len(latest_prices[n].sym) >= 6
        /\ latest_prices[n].price # None
        /\ NGt(latest_prices[n].price, Zero)}

\* edge e is the forward or the reverse edge of table item n
EdgeOf(e, n) ==
    LET symbol == latest_prices[n].sym
        price == latest_prices[n].price
    IN  \/ /\ e.u = SymbolBase(symbol)
           /\ e.v = SymbolQuote(symbol)
           /\ e.w = NMul(price, KeepFactor)
        \/ /\ e.u = SymbolQuote(symbol)
           /\ e.v = SymbolBase(symbol)
           /\ e.w = NMul(NInv(price), KeepFactor)

\* C4: every edge of the graph the check builds, forward or reverse, comes
\* from a table symbol of length >= 6 whose price is present and strictly
\* positive; the other symbols contribute no edge, so the graph has at most
\* two edges per such symbol.
C4_EdgesFromPositiveQuotes ==
    Detected =>
        LET edges == EdgeList(bf.graph)
        IN  /\ \A k \in 1..Len(edges) : \E n \in Qualifying : EdgeOf(edges[k], n)
            /\ Len(edges) <= 2 * Cardinality(Qualifying)

\* C4 witness: a graph with edges was built from a table that also holds a
\* 5-character symbol with a positive price, a symbol with a price <= 0 and
\* a symbol with no price
C4_Witness ==
    /\ Detected
    /\ bf.graph # <<>>
    /\ \E n \in 1..Len(latest_prices) :
          Len(latest_prices[n].sym) < 6 /\ NGt(latest_prices[n].price, Zero)
    /\ \E n \in 1..Len(latest_prices) :
          latest_prices[n].price # None /\ NLe(latest_prices[n].price, Zero)
    /\ \E n \in 1..Len(latest_prices) : latest_prices[n].price = None

\* What a run of the cycle check comes to: no opportunity, or the cycle and
\* the profit it notified
Outcome(cs) ==
    IF \E j \in 1..Len(cs) : cs[j].kind = "cycle"
      THEN LET j == CHOOSE j \in 1..Len(cs) : cs[j].kind = "cycle"
           IN  <<cs[j].path, cs[j].net_profit>>
    ELSE <<>>

\* C6: the cycle check is deterministic: whatever the order in which the
\* set of currencies is iterated, a run on the same table has the same
\* outcome as the run observed (same cycle and same profit, or no
\* opportunity in both).
C6_SameOutcomeForEveryOrder ==
    Detected =>
        \A r \in run_bellman_ford_arbitrage_check(latest_prices, Ledger) :
            Outcome(r.calls) = Outcome(calls)

\* the table holds exactly the quotes BTCUSDT, ETHBTC and ETHUSDT, with
\* positive finite prices
Triangle ==
    /\ {latest_prices[n].sym : n \in 1..Len(latest_prices)} = {BTCUSDT, ETHBTC, ETHUSDT}
    /\ \A n \in 1..Len(latest_prices) :
          /\ latest_prices[n].price # None
          /\ latest_prices[n].price.k = "fin"
          /\ NGt(latest_prices[n].price, Zero)

\* the fee-adjusted product of the round trip USDT -> BTC -> ETH -> USDT
RoundTrip ==
    NMul(NMul(NMul(NInv(PriceOf(latest_prices, BTCUSDT)), NInv(PriceOf(latest_prices, ETHBTC))),
              PriceOf(latest_prices, ETHUSDT)),
         NMul(NMul(KeepFactor, KeepFactor), KeepFactor))

\* and of the round trip the other way, USDT -> ETH -> BTC -> USDT
RoundTripBack ==
    NMul(NMul(NMul(PriceOf(latest_prices, BTCUSDT), PriceOf(latest_prices, ETHBTC)),
              NInv(PriceOf(latest_prices, ETHUSDT))),
         NMul(NMul(KeepFactor, KeepFactor), KeepFactor))

\* the check notified a cycle over exactly USDT, BTC and ETH with this product
EmittedTriangle(product) ==
    \E j \in 1..Len(calls) :
        /\ calls[j].kind = "cycle"
        /\ Len(calls[j].path) = 3
        /\ {calls[j].path[n] : n \in 1..3} = {USDT, BTC, ETH}
        /\ NEq(calls[j].net_profit, NSub(product, One))

\* C7: on a table whose symbols form a round trip over three currencies
\* with fee-adjusted product above 1, the cycle check notifies a cycle of
\* exactly those three currencies with net profit the product minus 1,
\* whatever the edge order and the start vertex.
C7_ProfitableTriangleNotified ==
    (Detected /\ Triangle) =>
        /\ NGt(RoundTrip, One) => EmittedTriangle(RoundTrip)
        /\ NGt(RoundTripBack, One) => EmittedTriangle(RoundTripBack)

\* the factors of the edges u -> v
Factors(graph, u, v) ==
    LET edges == EdgeList(graph)
    IN  {edges[k].w : k \in {k \in 1..Len(edges) : edges[k].u = u /\ edges[k].v = v}}

\* the products of the factors along q[i] -> q[i+1] -> .. -> q[Len(q)] -> q[1],
\* for every choice among parallel edges
RECURSIVE CycleGains(_, _, _)
CycleGains(graph, q, i) ==
    IF i > Len(q) THEN {One}
    ELSE {NMul(w, g) : w \in Factors(graph, q[i], q[(i % Len(q)) + 1]),
                       g \in CycleGains(graph, q, i + 1)}

\* the products of all simple cycles of the graph
AllCycleGains(graph, currencies) ==
    UNION {UNION {CycleGains(graph, q, 1) : q \in Orders(S)} : S \in SUBSET currencies \ {{}}}

\* C8: when every cycle of the built graph has a fee-adjusted product <= 1,
\* no edge relaxes in the check pass for any start vertex and no cycle
\* opportunity is notified.
C8_NoNegativeCycleNoNotification ==
    (Detected /\ \A g \in AllCycleGains(bf.graph, bf.currencies) : NLe(g, One)) =>
        /\ bf.v = NoVertex
        /\ \A start \in bf.currencies :
              BellmanFordFrom(bf.graph, bf.currencies, start).v = NoVertex
        /\ Outcome(calls) = <<>>

\* C8 witness: the check ran on a graph with a three-currency cycle of
\* product exactly 1 and none above 1, and found nothing
C8_Witness ==
    /\ Detected
    /\ ~raised
    /\ Cardinality(bf.currencies) = 3
    /\ \A g \in AllCycleGains(bf.graph, bf.currencies) : NLe(g, One)
    /\ \E q \in Orders(bf.currencies) : One \in CycleGains(bf.graph, q, 1)
    /\ bf.v = NoVertex

\* C9: for a cycle of three currencies all of whose legs resolve, the profit
\* calculate_cycle_profit computes is the effective product the triangular
\* scanner computes for the same three currencies on the same table; when
\* the cycle is a configured triplet, it is the product of the rates the
\* scanner resolved for it.
C9_ReplayMatchesTriangular ==
    (Detected /\ bf.cycle # NoVertex /\ bf.profit # None /\ Len(bf.cycle) = 3) =>
        LET A == bf.cycle[1]
            B == bf.cycle[2]
            C == bf.cycle[3]
        IN  /\ (RateOf(A, B) # None /\ RateOf(B, C) # None /\ RateOf(C, A) # None) =>
                  NEq(bf.profit, effective_product(RateOf(A, B), RateOf(B, C), RateOf(C, A)))
            /\ \A i \in 1..Len(triangular_triplets) :
                  (triangular_triplets[i] = bf.cycle /\ Resolved(i)) =>
                      /\ NEq(bf.profit, ProductOf(i))
                      /\ NotifiedFor(i) # {} <=> Outcome(calls) # <<>>

\* C9 witness: the cycle found is the first configured triplet, the scanner
\* resolved its three rates, and both notified it
C9_Witness ==
    /\ Detected
    /\ bf.cycle = triangular_triplets[1]
    /\ Resolved(1)
    /\ NotifiedFor(1) # {}
    /\ Outcome(calls) = <<bf.cycle, NSub(ProductOf(1), One)>>

----------------------------------------------------------------------------
(* Properties of the scheduler (SpecLive)                                  *)

\* C10: a failure raised by a check during a tick is caught at the
\* scheduler and the tick abandoned: the scheduler is always either about to
\* start a tick or waiting between ticks, and after any tick, failed or not,
\* the wait ends and another tick starts.
C10_SchedulerSurvives ==
    /\ [](pc \in {"triangular", "sleep"})
    /\ [](pc = "sleep" => <>(pc = "triangular"))

\* C10 witness: the last tick failed and the scheduler is at the start of
\* the next one
C10_Witness == raised /\ pc = "triangular"

----------------------------------------------------------------------------
(* C11: the reads of one tick see one version of the table *)

\* A step of the scheduler from the top of its loop body to the sleep
TickStep == pc = "triangular" /\ pc' # "triangular"

\* C11: in every run of Spec, where feed messages and ticks interleave, a
\* tick leaves the price table as it found it, and the rates of its
\* triangular scan, the graph of its cycle check and the replayed profit of
\* its cycle are all those of the table the tick started on
C11_TickReadsOneVersion ==
    [][TickStep =>
          /\ latest_prices' = latest_prices
          /\ rates' = run_triangular_arbitrage_check(latest_prices, Ledger).rates
          /\ bf'.graph = BuildGraph(latest_prices).graph
          /\ (bf'.cycle # NoVertex /\ ~raised') =>
                 bf'.profit = calculate_cycle_profit(latest_prices, bf'.cycle)]_vars

\* A tick has run on a table that the feed filled: the scan resolved rates,
\* the graph has edges and a cycle was replayed
C11_Witness ==
    /\ pc = "sleep"
    /\ handled >= 2
    /\ \E i \in 1..Len(rates) : Resolved(i)
    /\ bf.graph # <<>>
    /\ bf.cycle # NoVertex

----------------------------------------------------------------------------
(* C12: what a ledger notification returns *)

\* The strategy name the ledger logs for a notification of this kind
StrategyOf(kind) == IF kind = "cycle" THEN "BellmanFord" ELSE "Triangular"

\* Call j of the tick was accepted: the ledger logged a trade for its path
Accepted(j) ==
    \E e \in 1..Len(trade_log) :
        /\ trade_log[e].strategy = StrategyOf(calls[j].kind)
        /\ trade_log[e].path = Append(calls[j].path, calls[j].path[1])

\* C12: after a tick, a notification the ledger accepted and one it rejected
\* for insufficient balance never returned the same value to the engine
C12_ResultTellsAcceptedFromRejected ==
    Detected =>
        \A j \in 1..Len(calls), k \in 1..Len(calls) :
            (Accepted(j) /\ ~Accepted(k)) => calls[j].returned # calls[k].returned

----------------------------------------------------------------------------
(* C13: a ledger notification is all or nothing *)

\* Balances `after` differ from balances `before` at most in `currency`
OnlyChanges(before, after, currency) ==
    /\ DOMAIN after = DOMAIN before \cup {currency}
    /\ \A c \in DOMAIN before : c # currency => after[c] = before[c]

\* The trade log explains the balances: every entry records balances that
\* differ from those before it in the start currency of its path alone, by
\* minus the initial amount plus the final amount, and the balances now
\* are those of the last entry
LogExplainsBalances(log, bal) ==
    /\ bal = IF log = <<>> THEN initial_balances ELSE log[Len(log)].balances_after
    /\ \A e \in 1..Len(log) :
          LET before == IF e = 1 THEN initial_balances ELSE log[e - 1].balances_after
              start == log[e].path[1]
          IN  /\ OnlyChanges(before, log[e].balances_after, start)
              /\ NLe(log[e].initial_amount, BalanceGet(before, start))
              /\ log[e].balances_after[start] =
                     NAdd(NSub(BalanceGet(before, start), log[e].initial_amount),
                          log[e].final_amount)

\* The notifications `cs`, sent in this order to a ledger with balances
\* `bal`, account for the log entries `added` and end with balances `final`:
\* a notification whose start currency holds less than the trade amount
\* adds nothing, any other adds exactly one entry for its own path
RECURSIVE CallsExplain(_, _, _, _)
CallsExplain(cs, bal, added, final) ==
    IF cs = <<>> THEN added = <<>> /\ final = bal
    ELSE LET call == Head(cs)
             start == call.path[1]
         IN  IF NLt(BalanceGet(bal, start), call.trade_amount)
               THEN CallsExplain(Tail(cs), bal, added, final)
             ELSE /\ added # <<>>
                  /\ Head(added).strategy = StrategyOf(call.kind)
                  /\ Head(added).path = Append(call.path, start)
                  /\ Head(added).initial_amount = call.trade_amount
                  /\ OnlyChanges(bal, Head(added).balances_after, start)
                  /\ CallsExplain(Tail(cs), Head(added).balances_after,
                                  Tail(added), final)

\* C13: in every run of Spec the balances are always those the trade log
\* accounts for entry by entry, and in every tick each notification whose
\* start currency holds less than the trade amount leaves balances and log
\* alone while every other changes the start currency's balance only and
\* appends exactly one entry
C13_AllOrNothing ==
    [][/\ LogExplainsBalances(trade_log', balances')
       /\ TickStep =>
             /\ SubSeq(trade_log', 1, Len(trade_log)) = trade_log
             /\ CallsExplain(calls', balances,
                             SubSeq(trade_log', Len(trade_log) + 1, Len(trade_log')),
                             balances')]_vars

\* A tick in which one notification was accepted and another rejected
C13_Witness ==
    /\ pc = "sleep"
    /\ trade_log # <<>>
    /\ \E j \in 1..Len(calls) : Accepted(j)
    /\ \E k \in 1..Len(calls) : ~Accepted(k)

----------------------------------------------------------------------------
(* C14: the engine only reads the price table *)

\* A step of the feed: one more message handled, the engine's state untouched
FeedStep ==
    /\ handled' = handled + 1
    /\ UNCHANGED <<balances, trade_log, pc, calls, rates, bf, raised>>

\* C14: in every run of Spec a tick leaves every entry of the price table
\* as it was, adding, overwriting and deleting none, and every step that
\* changes the table is a step of the feed
C14_OnlyFeedWritesTable ==
    [][/\ TickStep =>
             /\ Len(latest_prices') = Len(latest_prices)
             /\ \A i \in 1..Len(latest_prices) : latest_prices'[i] = latest_prices[i]
       /\ latest_prices' # latest_prices => FeedStep]_vars

\* A tick that read a filled table: it resolved rates and notified the ledger
C14_Witness ==
    /\ pc = "sleep"
    /\ Len(latest_prices) >= 3
    /\ calls # <<>>

----------------------------------------------------------------------------
(* C15: stopping the scheduler *)

\* The state the engine and the ledger are left in
EngineState == <<balances, trade_log, calls, rates, bf, raised>>

\* From a state after the cancellation the scheduler only moves on to
\* termination, and nothing of the engine or the ledger changes
NoTickOnceCancelled ==
    pc \in {"cancelling", "cancelled"} =>
        /\ pc' \in {"cancelling", "cancelled"}
        /\ pc = "cancelled" => pc' = "cancelled"
        /\ EngineState' = EngineState

\* The tick before the request ran to its end
LastTickCarriedThrough ==
    /\ Len(rates) \in {0, Len(triangular_triplets)}
    /\ LogExplainsBalances(trade_log, balances)

----------------------------------------------------------------------------
(* C16: the starts after a cycle that is unusable *)

\* The cycle check sent a notification in the last tick
CycleNotified == \E j \in 1..Len(calls) : calls[j].kind = "cycle"

\* The Bellman-Ford run from `start` on the graph of the last tick ends in
\* a cycle that reconstructs and replays to a profit above 1
YieldsProfitableCycle(start) ==
    LET run == BellmanFordFrom(bf.graph, bf.currencies, start)
        cycle == reconstruct_cycle(run.predecessors, run.v)
        profit == calculate_cycle_profit(latest_prices, cycle)
    IN  /\ run.v # NoVertex
        /\ cycle # NoVertex
        /\ profit # Raise
        /\ NGt(profit, One)

\* C16: when a tick's cycle check returned without a notification (and
\* without an exception), no start vertex of its graph yields a
\* reconstructible cycle with replayed profit above 1
C16_ReturnsEmptyOnlyIfNoStartYields ==
    (Detected /\ ~raised /\ ~CycleNotified) =>
        \A start \in bf.currencies : ~YieldsProfitableCycle(start)

----------------------------------------------------------------------------
(* C17: one cycle notification per invocation *)

\* The calls of the last tick that are cycle notifications
CycleCalls == {j \in 1..Len(calls) : calls[j].kind = "cycle"}

\* C17: after a tick on any table of DetectTables, and for any iteration
\* order of the currencies, the cycle check has notified the ledger at
\* most once, and a notification is for the cycle of the start vertex at
\* which the check returned
C17_AtMostOneCycleNotification ==
    Detected =>
        /\ Cardinality(CycleCalls) <= 1
        /\ \A j \in CycleCalls : calls[j].path = bf.cycle
        /\ \A r \in run_bellman_ford_arbitrage_check(latest_prices, Ledger) :
               Len(r.calls) <= 1

\* The check notified the ledger of one cycle on a table where another
\* start vertex yields a profitable cycle too, with a different path
C17_Witness ==
    /\ Detected
    /\ CycleNotified
    /\ \E start \in bf.currencies :
          /\ start # bf.start
          /\ YieldsProfitableCycle(start)
          /\ LET run == BellmanFordFrom(bf.graph, bf.currencies, start)
             IN  reconstruct_cycle(run.predecessors, run.v) # bf.cycle

----------------------------------------------------------------------------
(* C18: the replayed profit of a cycle *)

\* The rate of the pair (X, Y): the price of XY if the table has it, else
\* the inverse of a non-zero price of YX, else 1 (no rate resolves when
\* neither symbol is present or YX is quoted at 0)
RateOrOne(X, Y) ==
    IF Has(latest_prices, X \o Y) THEN PriceOf(latest_prices, X \o Y)
    ELSE IF Has(latest_prices, Y \o X) /\ NNe(PriceOf(latest_prices, Y \o X), Zero)
      THEN NInv(PriceOf(latest_prices, Y \o X))
    ELSE One

\* The product over the pairs of the cycle, wrapping, of rate * (1 - feeRate)
RECURSIVE ProductOverPairs(_, _)
ProductOverPairs(cycle, i) ==
    IF i > Len(cycle) THEN One
    ELSE NMul(NMul(RateOrOne(cycle[i], cycle[(i % Len(cycle)) + 1]),
                   NSub(One, fee_rate)),
              ProductOverPairs(cycle, i + 1))

\* C18: for every table of ReplayTables and cycle of ReplayCycles,
\* calculate_cycle_profit returns the product over the consecutive pairs of
\* the cycle of rate * (1 - feeRate), a pair with no resolving rate counting
\* as rate 1
C18_ReplayIsProductWithUnresolvedAsOne ==
    pc = "replayed" =>
        /\ bf.profit # Raise
        /\ NEq(bf.profit, ProductOverPairs(bf.cycle, 1))

----------------------------------------------------------------------------
(* C19: the shape of a reconstructed cycle *)

\* The graph of the last tick has an edge from X to Y
HasEdge(X, Y) ==
    \E n \in 1..Len(EdgeList(bf.graph)) :
        EdgeList(bf.graph)[n].u = X /\ EdgeList(bf.graph)[n].v = Y

\* cycle has at least 2 elements, no element twice, and every consecutive
\* pair and the pair from the last element to the first is an edge
ClosedSimpleCycle(cycle) ==
    /\ Len(cycle) >= 2
    /\ \A i \in 1..Len(cycle) : \A j \in 1..Len(cycle) :
          i # j => cycle[i] # cycle[j]
    /\ \A i \in 1..Len(cycle) : HasEdge(cycle[i], cycle[(i % Len(cycle)) + 1])

\* C19: after a tick, the cycle reconstruct_cycle returned, and the path of
\* every cycle notification sent to the ledger, is a sequence of at least 2
\* pairwise-distinct currencies that is closed in the graph of that tick
C19_CycleIsClosedAndSimple ==
    Detected =>
        /\ bf.cycle # NoVertex => ClosedSimpleCycle(bf.cycle)
        /\ \A j \in CycleCalls : ClosedSimpleCycle(calls[j].path)

----------------------------------------------------------------------------
(* C20: balances only grow *)

\* Every trade of the log raised the balance of its start currency and
\* left the other balances as they were
EveryTradeGains(log) ==
    \A e \in 1..Len(log) :
        LET before == IF e = 1 THEN initial_balances ELSE log[e - 1].balances_after
            start == log[e].path[1]
        IN  /\ OnlyChanges(before, log[e].balances_after, start)
            /\ NGt(log[e].balances_after[start], BalanceGet(before, start))

\* C20: in every run of Spec, with feed messages and ticks interleaved and
\* fee_rate at its default, no step lowers a balance, every accepted trade
\* strictly raises the balance of its start currency and changes no other,
\* and the balances change only with a logged trade
C20_BalancesOnlyGrow ==
    [][/\ \A c \in DOMAIN balances :
             c \in DOMAIN balances' /\ NLe(balances[c], balances'[c])
       /\ EveryTradeGains(trade_log')
       /\ trade_log' = trade_log => balances' = balances]_vars

====
